---- MODULE Spec2Model ----
(***************************************************************************)
(* Model of airflow_dvc/dvc_upload.py: the DVCUpload base class with its   *)
(* context-manager protocol (__enter__/__exit__) and the four concrete     *)
(* upload sources DVCCallbackUpload, DVCPathUpload, DVCS3Upload and        *)
(* DVCStringUpload.                                                        *)
(*                                                                         *)
(* Objects live in slots 1..NumInst.  A resource returned by open() is a   *)
(* fresh Python object; it is modelled as an index into heap[i], the       *)
(* sequence of every resource instance i has ever opened.  The callers'    *)
(* "with" statements are modelled by scopes[i], the stack of resources     *)
(* handed out by __enter__ calls whose __exit__ has not run yet.           *)
(*                                                                         *)
(* Spec is a program that uses one upload object, SpecPair one that uses   *)
(* two and interleaves their with blocks.                                  *)
(***************************************************************************)
EXTENDS Integers, Sequences, FiniteSets, TLC

\* ---------------------------------------------------------------- bounds
NumInst == 2        \* object slots
MaxOpens == 2       \* successful open() calls per object
MaxOpenCalls == 2   \* open() calls per object, failed ones included
MaxDepth == 2       \* nested active scopes per object
MaxCloseCalls == 2  \* close() calls per resource

Inst == 1..NumInst

\* Python's None, for the _resource attribute (resources are 1, 2, ...).
None == 0

Classes == {"DVCCallbackUpload", "DVCPathUpload", "DVCS3Upload", "DVCStringUpload"}

\* String payloads, as sequences of characters.
Contents == {<<"a", "b">>}

\* The content argument of DVCStringUpload.
Literals == {<<"s">>}

\* What the outside world answers when open() asks it: the file at src, the
\* S3 key, or the data_provider callable either deliver a payload or raise.
World == {[ok |-> FALSE, data |-> << >>]} \cup {[ok |-> TRUE, data |-> c] : c \in Contents}

\* Exceptions seen by callers.
NoError == "none"
OpenError == "OpenError"      \* raised inside open(): FileNotFoundError, S3 error, provider error
CloseError == "CloseError"    \* raised inside close(): OSError from resource.close()
BodyError == "BodyError"      \* raised by the body of the with statement
ValueError == "ValueError"    \* read() on a closed file

VARIABLES
    uploads,        \* the slots in which the program constructs upload objects
    obj,            \* obj[i]: the attributes of object i (cls = "none": not constructed)
    heap,           \* heap[i]: the resources object i's open() has returned
    scopes,         \* scopes[i]: resources returned by __enter__ to still-active with blocks
    opens,          \* opens[i]: number of open() calls on object i
    providerCalls,  \* providerCalls[i]: number of invocations of data_provider
    outcome         \* the last operation: its inputs and what its caller observed

vars == <<uploads, obj, heap, scopes, opens, providerCalls, outcome>>

\* An object slot before construction.
Unconstructed ==
    [cls |-> "none", dvc_path |-> "", instance_context |-> "", _resource |-> None,
     src |-> "", aws_conn_id |-> "", bucket_name |-> "", bucket_path |-> "",
     content |-> << >>]

\* The outcome of an operation op on object inst that took no input, raised
\* nothing, returned nothing and called neither open() nor close().
\*   worldOk, bodyRaised: the inputs (the world's answer to open(), whether the
\*     with body raised);
\*   raised, context: the exception the caller gets and its __context__;
\*   returned: the resource __enter__ returned; data: what read() returned;
\*   text: what describe_source() returned;
\*   openCalls, closeCalled, closeRaised: the calls made and whether close() raised.
Plain(op, inst) ==
    [op |-> op, inst |-> inst, worldOk |-> TRUE, bodyRaised |-> FALSE,
     raised |-> NoError, context |-> NoError, returned |-> None, data |-> << >>,
     text |-> "",
     openCalls |-> 0, closeCalled |-> FALSE, closeRaised |-> FALSE]

Start ==
    /\ obj = [i \in Inst |-> Unconstructed]
    /\ heap = [i \in Inst |-> << >>]
    /\ scopes = [i \in Inst |-> << >>]
    /\ opens = [i \in Inst |-> 0]
    /\ providerCalls = [i \in Inst |-> 0]
    /\ outcome = Plain("none", 0)

Init == uploads = {1} /\ Start

InitPair == uploads = Inst /\ Start

\* ------------------------------------------------------------ construction

\* The frames inspect.getouterframes() finds at index 2: the code that calls
\* the constructor of the concrete class.  filename is a "/"-separated path,
\* held as the sequence of its components.
Callers ==
    {[filename |-> <<"dags", "etl.py">>, lineno |-> 10]}

DvcPaths == {"data/out.csv"}
LocalPaths == {"/tmp/in.csv"}
Buckets == {"bucket"}
Keys == {"k/in.csv"}
ConnIds == {"aws_default"}

\* Constructor arguments besides dvc_path, one record shape for all classes.
Args(cls) ==
    CASE cls = "DVCCallbackUpload" ->
           {[src |-> "", aws_conn_id |-> "", bucket_name |-> "", bucket_path |-> "",
             content |-> << >>]}
      [] cls = "DVCPathUpload" ->
           {[src |-> p, aws_conn_id |-> "", bucket_name |-> "", bucket_path |-> "",
             content |-> << >>] : p \in LocalPaths}
      [] cls = "DVCS3Upload" ->
           {[src |-> "", aws_conn_id |-> c, bucket_name |-> b, bucket_path |-> k,
             content |-> << >>] : c \in ConnIds, b \in Buckets, k \in Keys}
      [] cls = "DVCStringUpload" ->
           {[src |-> "", aws_conn_id |-> "", bucket_name |-> "", bucket_path |-> "",
             content |-> c] : c \in Literals}

\* caller.filename.split("/")[-1]
CallerPath(caller) == caller.filename[Len(caller.filename)]

\* f"({caller_path}:{caller.lineno})"
InstanceContext(caller) ==
    "(" \o CallerPath(caller) \o ":" \o ToString(caller.lineno) \o ")"

\* Variant of __init__ that calls data_provider() while constructing.
__init__Eager(cls, dvc_path, caller, args) ==
    [self |-> [cls |-> cls, dvc_path |-> dvc_path,
               instance_context |-> InstanceContext(caller), _resource |-> None,
               src |-> args.src, aws_conn_id |-> args.aws_conn_id,
               bucket_name |-> args.bucket_name, bucket_path |-> args.bucket_path,
               content |-> args.content],
     providerCalls |-> IF cls = "DVCCallbackUpload" THEN 1 ELSE 0]

\* DVCUpload.__init__ followed by the subclass's own assignments.  _resource
\* is not assigned: the object reads the class attribute, None.  The
\* data_provider callable is stored, not called (calls = 0).
__init__(cls, dvc_path, caller, args) ==
    [self |-> [cls |-> cls, dvc_path |-> dvc_path,
               instance_context |-> InstanceContext(caller), _resource |-> None,
               src |-> args.src, aws_conn_id |-> args.aws_conn_id,
               bucket_name |-> args.bucket_name, bucket_path |-> args.bucket_path,
               content |-> args.content],
     providerCalls |-> 0]

\* ------------------------------------------------- the abstract operations

\* describe_source() of the concrete classes: an f-string over attributes.
describe_source(self) ==
    CASE self.cls = "DVCCallbackUpload" -> "Callback " \o self.instance_context
      [] self.cls = "DVCPathUpload" -> "Path " \o self.src
      [] self.cls = "DVCS3Upload" -> "S3 " \o self.bucket_name \o "/" \o self.bucket_path
      [] self.cls = "DVCStringUpload" -> "String " \o self.instance_context

\* Variant of open() that turns a failed fetch into an empty buffer.
openPartial(self, world) ==
    [raised |-> NoError,
     data |-> IF self.cls = "DVCStringUpload" THEN self.content ELSE world.data,
     providerCalls |-> IF self.cls = "DVCCallbackUpload" THEN 1 ELSE 0]

\* Variant of open() in which DVCStringUpload fetches like the other classes.
openLiteralFromWorld(self, world) ==
    [raised |-> IF world.ok THEN NoError ELSE OpenError, data |-> world.data,
     providerCalls |-> IF self.cls = "DVCCallbackUpload" THEN 1 ELSE 0]

\* open() of the concrete classes.  world is what the callable, the file
\* system or S3Hook.read_key answers; the StringIO or file object is built
\* only from a complete answer.  providerCalls counts data_provider().
open(self, world) ==
    CASE self.cls = "DVCCallbackUpload" ->
           [raised |-> IF world.ok THEN NoError ELSE OpenError,
            data |-> world.data, providerCalls |-> 1]
      [] self.cls = "DVCPathUpload" ->
           [raised |-> IF world.ok THEN NoError ELSE OpenError,
            data |-> world.data, providerCalls |-> 0]
      [] self.cls = "DVCS3Upload" ->
           [raised |-> IF world.ok THEN NoError ELSE OpenError,
            data |-> world.data, providerCalls |-> 0]
      [] self.cls = "DVCStringUpload" ->
           [raised |-> NoError, data |-> self.content, providerCalls |-> 0]

\* A resource object as open() returns it: a StringIO or a file at position 0.
\* closeCalls and released record the close() calls made on it and whether
\* one of them returned normally.
NewResource(data) ==
    [data |-> data, pos |-> 0, closed |-> FALSE, closeCalls |-> 0, released |-> FALSE]

\* close() of the concrete classes.  DVCPathUpload calls resource.close(),
\* which marks the file object closed and may raise OSError (fails); the other
\* three classes execute "pass".
close(self, resource, fails) ==
    IF self.cls = "DVCPathUpload"
    THEN [raised |-> IF fails THEN CloseError ELSE NoError,
          resource |-> [resource EXCEPT !.closed = TRUE]]
    ELSE [raised |-> NoError, resource |-> resource]

\* resource.read(): the rest of the payload from the current position; a
\* closed file raises ValueError.
read(resource) ==
    IF resource.closed
    THEN [raised |-> ValueError, data |-> << >>, resource |-> resource]
    ELSE [raised |-> NoError,
          data |-> SubSeq(resource.data, resource.pos + 1, Len(resource.data)),
          resource |-> [resource EXCEPT !.pos = Len(resource.data)]]

\* --------------------------------------------------- the context manager

\* Variant of __enter__ without the "is None" test: every call opens.
__enter__Always(i, world) ==
    LET self == obj[i]
        o == open(self, world)
    IN  IF o.raised # NoError
        THEN [_resource |-> self._resource, heap |-> heap[i], raised |-> o.raised,
              returned |-> None, openCalls |-> 1, providerCalls |-> o.providerCalls]
        ELSE [_resource |-> Len(heap[i]) + 1,
              heap |-> Append(heap[i], NewResource(o.data)), raised |-> NoError,
              returned |-> Len(heap[i]) + 1, openCalls |-> 1,
              providerCalls |-> o.providerCalls]

\* DVCUpload.__enter__ on object i: the new _resource, the new heap, the
\* exception raised or the value returned, and the calls it made.
__enter__(i, world) ==
    LET self == obj[i] IN
    IF self._resource = None
    THEN LET o == open(self, world) IN
         IF o.raised # NoError
         THEN [_resource |-> self._resource, heap |-> heap[i], raised |-> o.raised,
               returned |-> None, openCalls |-> 1, providerCalls |-> o.providerCalls]
         ELSE [_resource |-> Len(heap[i]) + 1,
               heap |-> Append(heap[i], NewResource(o.data)), raised |-> NoError,
               returned |-> Len(heap[i]) + 1, openCalls |-> 1,
               providerCalls |-> o.providerCalls]
    ELSE [_resource |-> self._resource, heap |-> heap[i], raised |-> NoError,
          returned |-> self._resource, openCalls |-> 0, providerCalls |-> 0]

\* Variant of __exit__ that drops the reference without calling close().
__exit__NoClose(i, fails) ==
    [_resource |-> None, heap |-> heap[i], raised |-> NoError, suppress |-> FALSE,
     closeCalled |-> FALSE, closeRaised |-> FALSE]

\* Variant of __exit__ that ends with "return True".
__exit__Suppress(i, fails) ==
    LET self == obj[i] IN
    IF self._resource # None
    THEN LET r == self._resource
             c == close(self, heap[i][r], fails)
             after == [c.resource EXCEPT !.closeCalls = @ + 1,
                                         !.released = @ \/ c.raised = NoError]
         IN  IF c.raised # NoError
             THEN [_resource |-> self._resource, heap |-> [heap[i] EXCEPT ![r] = after],
                   raised |-> c.raised, suppress |-> FALSE, closeCalled |-> TRUE,
                   closeRaised |-> TRUE]
             ELSE [_resource |-> None, heap |-> [heap[i] EXCEPT ![r] = after],
                   raised |-> NoError, suppress |-> TRUE, closeCalled |-> TRUE,
                   closeRaised |-> FALSE]
    ELSE [_resource |-> None, heap |-> heap[i], raised |-> NoError,
          suppress |-> TRUE, closeCalled |-> FALSE, closeRaised |-> FALSE]

\* Variant of __exit__ that wraps close() in "try: ... except Exception: pass".
__exit__Swallow(i, fails) ==
    LET self == obj[i] IN
    IF self._resource # None
    THEN LET r == self._resource
             c == close(self, heap[i][r], fails)
             after == [c.resource EXCEPT !.closeCalls = @ + 1,
                                         !.released = @ \/ c.raised = NoError]
         IN  [_resource |-> None, heap |-> [heap[i] EXCEPT ![r] = after],
              raised |-> NoError, suppress |-> FALSE, closeCalled |-> TRUE,
              closeRaised |-> c.raised # NoError]
    ELSE [_resource |-> None, heap |-> heap[i], raised |-> NoError,
          suppress |-> FALSE, closeCalled |-> FALSE, closeRaised |-> FALSE]

\* DVCUpload.__exit__ on object i.  When close() raises, the assignment
\* self._resource = None after it is not reached.  The method returns None
\* (suppress = FALSE) on every path that returns.
__exit__(i, fails) ==
    LET self == obj[i] IN
    IF self._resource # None
    THEN LET r == self._resource
             c == close(self, heap[i][r], fails)
             after == [c.resource EXCEPT !.closeCalls = @ + 1,
                                         !.released = @ \/ c.raised = NoError]
         IN  IF c.raised # NoError
             THEN [_resource |-> self._resource, heap |-> [heap[i] EXCEPT ![r] = after],
                   raised |-> c.raised, suppress |-> FALSE, closeCalled |-> TRUE,
                   closeRaised |-> TRUE]
             ELSE [_resource |-> None, heap |-> [heap[i] EXCEPT ![r] = after],
                   raised |-> NoError, suppress |-> FALSE, closeCalled |-> TRUE,
                   closeRaised |-> FALSE]
    ELSE [_resource |-> None, heap |-> heap[i], raised |-> NoError,
          suppress |-> FALSE, closeCalled |-> FALSE, closeRaised |-> FALSE]

\* What the with statement raises to its caller once __exit__(x) has run on a
\* body that raised (bodyRaised) or not: an exception of __exit__ replaces the
\* body's and carries it as its __context__; otherwise the body's exception is
\* re-raised unless __exit__ returned a true value.
WithRaises(bodyRaised, x) ==
    IF x.raised # NoError
    THEN [raised |-> x.raised, context |-> IF bodyRaised THEN BodyError ELSE NoError]
    ELSE [raised |-> IF bodyRaised /\ ~x.suppress THEN BodyError ELSE NoError,
          context |-> NoError]

\* Variant of the describe_source() call that opens the source to describe it.
DescribeCallReads(i) ==
    [returned |-> describe_source(obj[i]), _resource |-> obj[i]._resource,
     heap |-> heap[i], openCalls |-> 1,
     providerCalls |-> IF obj[i].cls = "DVCCallbackUpload" THEN 1 ELSE 0]

\* describe_source() called on object i, with its effect on the object: the
\* three f-strings read attributes and neither assign one nor call a method.
DescribeCall(i) ==
    [returned |-> describe_source(obj[i]), _resource |-> obj[i]._resource,
     heap |-> heap[i], openCalls |-> 0, providerCalls |-> 0]

\* The three abstract methods of DVCUpload.
BaseMethods == {"describe_source", "open", "close"}

\* The exception a base implementation raises: an Exception with this message.
UnsupportedError(method) ==
    "Operation is not supported: " \o method \o "() invoked on abstract base class - DVCUpload"

\* Variant of the base implementations whose body is "pass".
AbstractCallSilent(i, method) ==
    [raised |-> NoError, _resource |-> obj[i]._resource, heap |-> heap[i],
     openCalls |-> 0, providerCalls |-> 0]

\* DVCUpload.describe_source, DVCUpload.open or DVCUpload.close run on object
\* i (through super() or the class): the body is a single raise.
AbstractCall(i, method) ==
    [raised |-> UnsupportedError(method), _resource |-> obj[i]._resource,
     heap |-> heap[i], openCalls |-> 0, providerCalls |-> 0]

\* Variant of the attribute store that assigns DVCUpload._resource, the class
\* attribute every object reads.
SetResourceOnClass(o, i, v) == [j \in DOMAIN o |-> [o[j] EXCEPT !._resource = v]]

\* Variant of the attribute store that clears the wrong attribute
\* ("self.dvc_path = None" for "self._resource = None").
SetResourceWrongAttr(o, i, v) ==
    IF v = None THEN [o EXCEPT ![i].dvc_path = "None"] ELSE [o EXCEPT ![i]._resource = v]

\* "self._resource = v" on object i of the objects o: the store creates or
\* updates the attribute of that object; the class attribute _resource = None,
\* which an object reads until its first store, is not assigned.
SetResource(o, i, v) == [o EXCEPT ![i]._resource = v]

\* ----------------------------------------------------------------- actions

\* cls(dvc_path, ...) evaluated at a construction site.
Construct(i, cls, dvc_path, caller, args) ==
    /\ i \in uploads
    /\ obj[i].cls = "none"
    /\ LET n == __init__(cls, dvc_path, caller, args) IN
       /\ obj' = [obj EXCEPT ![i] = n.self]
       /\ providerCalls' = [providerCalls EXCEPT ![i] = @ + n.providerCalls]
    /\ outcome' = Plain("construct", i)
    /\ UNCHANGED <<uploads, heap, scopes, opens>>

\* "with obj as r:" reaches its body, or __enter__ raises.
Enter(i, world) ==
    /\ obj[i].cls # "none"
    /\ Len(scopes[i]) < MaxDepth
    /\ obj[i]._resource = None => opens[i] < MaxOpenCalls /\ Len(heap[i]) < MaxOpens
    /\ LET e == __enter__(i, world) IN
       /\ obj' = SetResource(obj, i, e._resource)
       /\ heap' = [heap EXCEPT ![i] = e.heap]
       /\ opens' = [opens EXCEPT ![i] = @ + e.openCalls]
       /\ providerCalls' = [providerCalls EXCEPT ![i] = @ + e.providerCalls]
       /\ scopes' = [scopes EXCEPT ![i] =
                        IF e.raised = NoError THEN Append(@, e.returned) ELSE @]
       /\ outcome' = [Plain("enter", i) EXCEPT !.worldOk = world.ok,
                                               !.raised = e.raised,
                                               !.returned = e.returned,
                                               !.openCalls = e.openCalls]
    /\ UNCHANGED uploads

\* The body of the innermost with block on i reads the resource it was given.
Read(i) ==
    /\ Len(scopes[i]) > 0
    /\ LET r == scopes[i][Len(scopes[i])]
           d == read(heap[i][r])
       IN  /\ heap' = [heap EXCEPT ![i][r] = d.resource]
           /\ outcome' = [Plain("read", i) EXCEPT !.raised = d.raised, !.data = d.data,
                                                  !.returned = r]
    /\ UNCHANGED <<uploads, obj, scopes, opens, providerCalls>>

\* The innermost with block on i ends, its body having raised or not:
\* __exit__ runs and the with statement completes.
WithExit(i, bodyRaised, fails) ==
    /\ Len(scopes[i]) > 0
    /\ obj[i]._resource # None => heap[i][obj[i]._resource].closeCalls < MaxCloseCalls
    /\ LET x == __exit__(i, fails)
           w == WithRaises(bodyRaised, x)
       IN  /\ obj' = SetResource(obj, i, x._resource)
           /\ heap' = [heap EXCEPT ![i] = x.heap]
           /\ outcome' = [Plain("exit", i) EXCEPT !.bodyRaised = bodyRaised,
                                                  !.raised = w.raised,
                                                  !.context = w.context,
                                                  !.closeCalled = x.closeCalled,
                                                  !.closeRaised = x.closeRaised]
    /\ scopes' = [scopes EXCEPT ![i] = SubSeq(@, 1, Len(@) - 1)]
    /\ UNCHANGED <<uploads, opens, providerCalls>>

\* obj.__exit__(None, None, None) called with no with block active on i.
DirectExit(i, fails) ==
    /\ obj[i].cls # "none"
    /\ Len(scopes[i]) = 0
    /\ obj[i]._resource # None => heap[i][obj[i]._resource].closeCalls < MaxCloseCalls
    /\ LET x == __exit__(i, fails) IN
       /\ obj' = SetResource(obj, i, x._resource)
       /\ heap' = [heap EXCEPT ![i] = x.heap]
       /\ outcome' = [Plain("__exit__", i) EXCEPT !.raised = x.raised,
                                                  !.closeCalled = x.closeCalled,
                                                  !.closeRaised = x.closeRaised]
    /\ UNCHANGED <<uploads, scopes, opens, providerCalls>>

\* obj.describe_source()
Describe(i) ==
    /\ obj[i].cls # "none"
    /\ LET d == DescribeCall(i) IN
       /\ obj' = SetResource(obj, i, d._resource)
       /\ heap' = [heap EXCEPT ![i] = d.heap]
       /\ opens' = [opens EXCEPT ![i] = @ + d.openCalls]
       /\ providerCalls' = [providerCalls EXCEPT ![i] = @ + d.providerCalls]
       /\ outcome' = [Plain("describe", i) EXCEPT !.text = d.returned]
    /\ UNCHANGED <<uploads, scopes>>

\* DVCUpload.<method>(obj, ...): a base implementation called on object i.
BaseCall(i, method) ==
    /\ obj[i].cls # "none"
    /\ LET a == AbstractCall(i, method) IN
       /\ obj' = SetResource(obj, i, a._resource)
       /\ heap' = [heap EXCEPT ![i] = a.heap]
       /\ opens' = [opens EXCEPT ![i] = @ + a.openCalls]
       /\ providerCalls' = [providerCalls EXCEPT ![i] = @ + a.providerCalls]
       /\ outcome' = [Plain("DVCUpload." \o method, i) EXCEPT !.raised = a.raised]
    /\ UNCHANGED <<uploads, scopes>>

Next ==
    \/ \E i \in Inst, cls \in Classes, p \in DvcPaths, c \in Callers :
         \E a \in Args(cls) : Construct(i, cls, p, c, a)
    \/ \E i \in Inst, w \in World : Enter(i, w)
    \/ \E i \in Inst : Read(i)
    \/ \E i \in Inst, b \in BOOLEAN, f \in BOOLEAN : WithExit(i, b, f)
    \/ \E i \in Inst, f \in BOOLEAN : DirectExit(i, f)
    \/ \E i \in Inst : Describe(i)
    \/ \E i \in Inst, m \in BaseMethods : BaseCall(i, m)

Spec == Init /\ [][Next]_vars

\* The operations that open and close resources, on two objects.
NextPair ==
    \/ \E i \in Inst, cls \in Classes, p \in DvcPaths, c \in Callers :
         \E a \in Args(cls) : Construct(i, cls, p, c, a)
    \/ \E i \in Inst, w \in World : Enter(i, w)
    \/ \E i \in Inst, b \in BOOLEAN, f \in BOOLEAN : WithExit(i, b, f)
    \/ \E i \in Inst, f \in BOOLEAN : DirectExit(i, f)

SpecPair == InitPair /\ [][NextPair]_vars

\* The program when close() never raises.
NextLive ==
    \/ \E i \in Inst, cls \in Classes, p \in DvcPaths, c \in Callers :
         \E a \in Args(cls) : Construct(i, cls, p, c, a)
    \/ \E i \in Inst, w \in World : Enter(i, w)
    \/ \E i \in Inst : Read(i)
    \/ \E i \in Inst, b \in BOOLEAN : WithExit(i, b, FALSE)
    \/ \E i \in Inst : DirectExit(i, FALSE)
    \/ \E i \in Inst : Describe(i)
    \/ \E i \in Inst, m \in BaseMethods : BaseCall(i, m)

\* Every with block that was entered ends, by its body completing or raising:
\* the with statement then runs __exit__.
SpecLive ==
    /\ Init
    /\ [][NextLive]_vars
    /\ \A i \in Inst : WF_vars(\E b \in BOOLEAN : WithExit(i, b, FALSE))

\* ---------------------------------------------------------------- helpers

\* The step is an __enter__ call on i (each action names itself in outcome).
EnterStep(i) == outcome'.op = "enter" /\ outcome'.inst = i

\* The resources of i on which no close() call has returned normally.
Unreleased(i) == {r \in 1..Len(heap[i]) : ~heap[i][r].released}

\* The resources of i held by a still-active with block.
InScope(i) == {scopes[i][k] : k \in 1..Len(scopes[i])}

\* The step is a read() in a with body on i.
ReadStep(i) == outcome'.op = "read" /\ outcome'.inst = i

\* The step is an __exit__ call on i, by a with statement or direct.
ExitStep(i) == outcome'.op \in {"exit", "__exit__"} /\ outcome'.inst = i

\* open() of the object's class can raise.
CanFailOpen(i) == obj[i].cls \in {"DVCCallbackUpload", "DVCPathUpload", "DVCS3Upload"}

\* ------------------------------------------------------------------ claims

\* C1: once a with block on an object has completed, normally or with an
\* error, the object holds no resource (_resource is None), and the next with
\* block on it calls open() again and is given a fresh resource.
C1_ScopeEndClearsAndReopens ==
    [][/\ outcome'.op = "exit" => obj'[outcome'.inst]._resource = None
       /\ \A i \in Inst :
            outcome.op = "exit" /\ outcome.inst = i /\ EnterStep(i)
            => /\ outcome'.openCalls = 1
               /\ outcome'.raised = NoError
                    => outcome'.returned = Len(heap[i]) + 1 /\ Len(heap'[i]) = Len(heap[i]) + 1]_vars

\* C2: an __enter__ that directly follows a successful __enter__ on the same
\* object returns the same resource and does not call open(), so that open()
\* runs at most once for the two (once when the first one found none held);
\* more generally an __enter__ that finds a resource held returns it unopened.
C2_SecondEnterReusesResource ==
    [][\A i \in Inst :
         EnterStep(i) =>
           /\ obj[i]._resource # None
                => /\ outcome'.raised = NoError
                   /\ outcome'.returned = obj[i]._resource
                   /\ outcome'.openCalls = 0
                   /\ opens'[i] = opens[i]
                   /\ heap'[i] = heap[i]
           /\ outcome.op = "enter" /\ outcome.inst = i /\ outcome.raised = NoError
                => /\ outcome'.raised = NoError
                   /\ outcome'.returned = outcome.returned
                   /\ outcome'.openCalls = 0
                   /\ outcome.openCalls + outcome'.openCalls <= 1]_vars

C2_Witness ==
    /\ outcome.op = "enter" /\ outcome.raised = NoError /\ outcome.openCalls = 0
    /\ Len(scopes[outcome.inst]) = 2
    /\ scopes[outcome.inst][1] = scopes[outcome.inst][2]
    /\ opens[outcome.inst] = 1

\* C3: every resource open() returned is passed to close() exactly once:
\* never twice, and at least once when no with block holds it any more.
C3_ClosedExactlyOnce ==
    \A i \in Inst : \A r \in 1..Len(heap[i]) :
        /\ heap[i][r].closeCalls <= 1
        /\ r \notin InScope(i) => heap[i][r].closeCalls >= 1

\* C4: after __exit__ has run, the object holds no resource, on every path:
\* body succeeded, body raised, close() raised.
C4_ExitAlwaysClears ==
    (outcome.op \in {"exit", "__exit__"} /\ outcome.closeCalled)
        => obj[outcome.inst]._resource = None

\* C5: an object never has more than one resource that open() returned and
\* close() has not released.
C5_AtMostOneOpen == \A i \in Inst : Cardinality(Unreleased(i)) <= 1

C5_Witness ==
    \E i \in Inst :
        /\ Len(heap[i]) = 2
        /\ Cardinality(Unreleased(i)) = 1
        /\ \E r \in 1..Len(heap[i]) : heap[i][r].closeCalls = 2

\* C6: when open() fails during __enter__ the caller gets the open error, no
\* resource is returned, cached or created, close() is not called, no with
\* body starts, and the object is as it was, without a resource.
C6_OpenFailureLeavesNothing ==
    [][\A i \in Inst :
         (EnterStep(i) /\ obj[i]._resource = None /\ CanFailOpen(i) /\ ~outcome'.worldOk)
         => /\ outcome'.raised = OpenError
            /\ outcome'.returned = None
            /\ ~outcome'.closeCalled
            /\ outcome'.data = << >>
            /\ obj'[i] = obj[i]
            /\ heap' = heap
            /\ scopes' = scopes]_vars

C6_Witness ==
    /\ outcome.op = "enter" /\ outcome.raised = OpenError /\ ~outcome.worldOk
    /\ obj[outcome.inst].cls \in {"DVCPathUpload", "DVCS3Upload"}
    /\ obj[outcome.inst]._resource = None
    /\ scopes[outcome.inst] = << >>

\* C7: failures are neither swallowed nor retried: a with block whose body
\* raised and whose close() succeeded raises the body's error, and a failing
\* open() is called once and its error raised.
C7_FailuresPropagate ==
    /\ (outcome.op = "exit" /\ outcome.bodyRaised /\ ~outcome.closeRaised)
         => outcome.raised = BodyError /\ outcome.context = NoError
    /\ (outcome.op = "enter" /\ outcome.openCalls > 0 /\ ~outcome.worldOk
            /\ CanFailOpen(outcome.inst))
         => outcome.raised = OpenError /\ outcome.openCalls = 1

C7_Witness ==
    /\ outcome.op = "exit" /\ outcome.bodyRaised
    /\ outcome.closeCalled /\ ~outcome.closeRaised
    /\ outcome.raised = BodyError
    /\ opens[outcome.inst] > Len(heap[outcome.inst])

\* C8: when the body raised and close() raises during the exit, close() was
\* called and the caller gets both errors: the close error, carrying the
\* body's error as its context.
C8_CloseFailureKeepsBodyError ==
    (outcome.op = "exit" /\ outcome.bodyRaised /\ outcome.closeRaised)
        => /\ outcome.closeCalled
           /\ outcome.raised = CloseError
           /\ outcome.context = BodyError

C8_Witness ==
    /\ outcome.op = "exit" /\ outcome.bodyRaised /\ outcome.closeRaised
    /\ outcome.raised = CloseError /\ outcome.context = BodyError

\* C9: data_provider is called by open() only: its calls number the open()
\* calls of a DVCCallbackUpload, none at construction or by describe_source().
C9_ProviderCalledOnlyByOpen ==
    \A i \in Inst :
        /\ obj[i].cls = "DVCCallbackUpload" => providerCalls[i] = opens[i]
        /\ obj[i].cls # "DVCCallbackUpload" => providerCalls[i] = 0
        /\ Len(heap[i]) <= opens[i]

C9_Witness ==
    \E i \in Inst :
        /\ obj[i].cls = "DVCCallbackUpload"
        /\ providerCalls[i] = 2
        /\ Len(heap[i]) = 1
        /\ outcome.op = "describe" /\ outcome.inst = i

\* C10: describe_source() changes nothing (no open(), no close(), no read,
\* no attribute), in every state of the object, and the string it returns for
\* an object never changes.
C10_DescribeIsPure ==
    [][\A i \in Inst :
         /\ (outcome'.op = "describe" /\ outcome'.inst = i)
              => UNCHANGED <<obj, heap, scopes, opens, providerCalls>>
         /\ obj[i].cls # "none"
              => DescribeCall(i).returned' = DescribeCall(i).returned]_vars

C10_Witness ==
    /\ outcome.op = "describe"
    /\ obj[outcome.inst]._resource = 2
    /\ heap[outcome.inst][1].released
    /\ outcome.text = DescribeCall(outcome.inst).returned

\* C11: distinct objects are independent under any interleaving: an operation
\* on one object (enter, exit, failing open, close) never changes the held
\* resource, the resources, the scopes or the open() count of another, although
\* _resource is declared on the class.
C11_InstancesIndependent ==
    [][\A i \in Inst : \A j \in Inst \ {i} :
         outcome'.inst = i
         => /\ obj'[j] = obj[j]
            /\ heap'[j] = heap[j]
            /\ scopes'[j] = scopes[j]
            /\ opens'[j] = opens[j]
            /\ providerCalls'[j] = providerCalls[j]]_vars

C11_Witness ==
    \E i \in Inst : \E j \in Inst \ {i} :
        /\ obj[i]._resource # None /\ Len(scopes[i]) = 2
        /\ obj[j]._resource = None /\ Len(heap[j]) = 2
        /\ heap[j][2].closeCalls = 1 /\ heap[i][1].closeCalls = 0
        /\ opens[i] = 1
        /\ outcome.op = "exit" /\ outcome.inst = j

\* C12: a with block on a DVCStringUpload never fails at open; every
\* acquisition that follows an exit opens a fresh buffer that holds the content
\* given at construction, from position 0, so a read of an unread buffer
\* returns the whole content; its close() alters no buffer and never raises.
C12_LiteralYieldsContent ==
    [][\A i \in Inst :
         obj[i].cls = "DVCStringUpload" =>
           /\ EnterStep(i)
                => /\ outcome'.raised = NoError
                   /\ (obj[i]._resource = None \/ (outcome.op = "exit" /\ outcome.inst = i))
                        => /\ outcome'.openCalls = 1
                           /\ outcome'.returned = Len(heap[i]) + 1
                           /\ heap'[i][outcome'.returned].data = obj[i].content
                           /\ heap'[i][outcome'.returned].pos = 0
                           /\ ~heap'[i][outcome'.returned].closed
           /\ (ReadStep(i) /\ heap[i][outcome'.returned].pos = 0)
                => outcome'.raised = NoError /\ outcome'.data = obj[i].content
           /\ ExitStep(i)
                => /\ ~outcome'.closeRaised
                   /\ outcome'.raised = (IF outcome'.bodyRaised THEN BodyError ELSE NoError)
                   /\ \A r \in 1..Len(heap[i]) :
                        /\ heap'[i][r].data = heap[i][r].data
                        /\ heap'[i][r].pos = heap[i][r].pos
                        /\ heap'[i][r].closed = heap[i][r].closed]_vars

C12_Witness ==
    /\ outcome.op = "read" /\ outcome.returned = 2
    /\ obj[outcome.inst].cls = "DVCStringUpload"
    /\ outcome.data = obj[outcome.inst].content /\ outcome.data # << >>
    /\ heap[outcome.inst][1].pos = Len(obj[outcome.inst].content)
    /\ heap[outcome.inst][1].closeCalls = 1

\* The attributes of an object other than the cached resource.
Fields(o) == [o EXCEPT !._resource = None]

\* C13: dvc_path and the attributes of the concrete class never change once
\* the object is constructed, whatever operation runs and however it ends;
\* only _resource changes.
C13_FieldsImmutable ==
    [][\A i \in Inst :
         obj[i].cls # "none"
         => /\ obj'[i].dvc_path = obj[i].dvc_path
            /\ Fields(obj'[i]) = Fields(obj[i])]_vars

C13_Witness ==
    /\ outcome.op = "exit" /\ outcome.closeRaised /\ outcome.bodyRaised
    /\ obj[outcome.inst].dvc_path \in DvcPaths
    /\ obj[outcome.inst]._resource = 2
    /\ opens[outcome.inst] = 2

\* C14: each of describe_source, open and close, run in its base
\* implementation, raises the "operation is not supported" error, which is none
\* of the open, close, body or read errors, and leaves the object as it was.
C14_BaseOperationsUnsupported ==
    [][\A i \in Inst : \A m \in BaseMethods :
         (outcome'.op = "DVCUpload." \o m /\ outcome'.inst = i)
         => /\ outcome'.raised = UnsupportedError(m)
            /\ outcome'.raised \notin {NoError, OpenError, CloseError, BodyError, ValueError}
            /\ \A n \in BaseMethods \ {m} : outcome'.raised # UnsupportedError(n)
            /\ UNCHANGED <<obj, heap, scopes, opens, providerCalls>>]_vars

C14_Witness ==
    /\ outcome.op = "DVCUpload.close"
    /\ outcome.raised = UnsupportedError("close")
    /\ obj[outcome.inst]._resource # None
    /\ Len(scopes[outcome.inst]) = 1

C16_ExitIdempotent ==
    [][\A i \in Inst :
         ExitStep(i) =>
           /\ obj[i]._resource = None
                => /\ ~outcome'.closeCalled
                   /\ ~outcome'.closeRaised
                   /\ outcome'.raised = (IF outcome'.bodyRaised THEN BodyError ELSE NoError)
                   /\ obj'[i] = obj[i]
                   /\ heap'[i] = heap[i]
                   /\ opens'[i] = opens[i]
           /\ (outcome.op \in {"exit", "__exit__"} /\ outcome.inst = i)
                => ~outcome'.closeCalled /\ heap'[i] = heap[i]
           /\ Len(heap[i]) = 0 => ~outcome'.closeCalled]_vars

\* C17: when every with block ends and close() does not fail, every resource
\* an object opened is released: an object that holds a resource, or has an
\* unreleased one, eventually holds none and has none unreleased.
C17_EventuallyReleased ==
    \A i \in Inst :
        (obj[i]._resource # None \/ Unreleased(i) # {})
            ~> (obj[i]._resource = None /\ Unreleased(i) = {})

\* A DVCPathUpload whose second with block ended by an error, file closed.
C17_Witness ==
    \E i \in Inst :
        /\ obj[i].cls = "DVCPathUpload"
        /\ outcome.op = "exit" /\ outcome.inst = i /\ outcome.bodyRaised
        /\ outcome.closeCalled
        /\ Len(heap[i]) = 2 /\ heap[i][2].closed
        /\ obj[i]._resource = None /\ Unreleased(i) = {}

====
